---- MODULE Spec2Model ----
(***************************************************************************)
(* parseidf.py: a PLY lexer and LALR(1) parser turning the text of an IDF  *)
(* file into a dictionary  { TYPE |-> list of objects }.                   *)
(*                                                                         *)
(* A text is a sequence of one-character strings.  A Python str value      *)
(* (token text, type name, field) is again such a sequence; a Python list  *)
(* is a sequence; the result dictionary, whose insertion order Python      *)
(* preserves, is a sequence of records [key, objs].                        *)
(***************************************************************************)
EXTENDS Integers, Sequences, FiniteSets, TLC

VARIABLES
    idf_text,    \* the argument of parse()
    lexpos,      \* lexer.lexpos, 1-based: the next character to scan
    lineno,      \* lexer.lineno
    lookahead,   \* the parser's lookahead token: <<>> or <<tok>>
    statestack,  \* the LR parser's state stack
    symstack,    \* the LR parser's symbol stack (without the $end sentinel)
    status,      \* "running", "returned" or "raised"
    result,      \* <<>> (no Document) or <<d>>, d the returned dictionary
    error,       \* the SyntaxError raised, NoError before
    emitted,     \* history: the tokens the lexer has handed to the parser
    parsed,      \* history: the objects built by the idfobject rules, in order
    pass,        \* 1 while parsing the given text, 2 while parsing a derived one
    first,       \* the given text, and the outcome of parsing it (pass 2 only)
    derived      \* how the text of pass 2 was derived from the given one

vars == <<idf_text, lexpos, lineno, lookahead, statestack, symstack, status,
          result, error, emitted, parsed, pass, first, derived>>

-----------------------------------------------------------------------------
(* Bounds of the model. *)

MaxLen == 4
MaxObjLen == 6
MaxPadLen == 4
MaxStripLen == 5
MaxRoundLen == 4

-----------------------------------------------------------------------------
(* Characters. *)

HWS == {" ", "\t"}                 \* the class [ \t]
CommentWS == {" ", "\t", "\r", "\n"} \* the class [ \t\r\n]
ValueStop == {"!", ",", ";", "\n"} \* the complement of the class [^!,;\n]
PyWhitespace == {" ", "\t", "\r", "\n"} \* what str.strip() removes

RECURSIVE RunLen(_, _, _)
\* the length of the longest run of characters of S in s from position i
RunLen(s, i, S) ==
    IF i <= Len(s) /\ s[i] \in S THEN 1 + RunLen(s, i + 1, S) ELSE 0

RECURSIVE RunLenNot(_, _, _)
\* the length of the longest run of characters outside S in s from position i
RunLenNot(s, i, S) ==
    IF i <= Len(s) /\ s[i] \notin S THEN 1 + RunLenNot(s, i + 1, S) ELSE 0

RECURSIVE NewlineRun(_, _)
\* what (\r?\n)+ consumes from position i (0: no match)
NewlineRun(s, i) ==
    IF i <= Len(s) /\ s[i] = "\n" THEN 1 + NewlineRun(s, i + 1)
    ELSE IF i + 1 <= Len(s) /\ s[i] = "\r" /\ s[i + 1] = "\n"
         THEN 2 + NewlineRun(s, i + 2)
         ELSE 0

RECURSIVE CountChar(_, _)
CountChar(s, c) ==
    IF s = <<>> THEN 0
    ELSE (IF Head(s) = c THEN 1 ELSE 0) + CountChar(Tail(s), c)

\* str.upper() on the letters of the model's alphabets
UpperChar(c) ==
    CASE c = "a" -> "A"
      [] c = "b" -> "B"
      [] OTHER -> c

upper(s) == [i \in 1..Len(s) |-> UpperChar(s[i])]

\* str.strip(): drop leading and trailing whitespace
strip(s) ==
    LET lead == RunLen(s, 1, PyWhitespace)
        rev == [i \in 1..Len(s) |-> s[Len(s) + 1 - i]]
        trail == RunLen(rev, 1, PyWhitespace)
    IN  IF lead = Len(s) THEN <<>> ELSE SubSeq(s, lead + 1, Len(s) - trail)

-----------------------------------------------------------------------------
(* The lexer's rules.  Each gives the length of its regular expression's   *)
(* match at position i of s, 0 when it does not match (no rule matches the *)
(* empty string).                                                          *)

\* re_COMMENT without the whitespace and line breaks before the `!`
re_COMMENT_bare(s, i) ==
    IF i <= Len(s) /\ s[i] = "!"
    THEN 1 + RunLenNot(s, i + 1, {"\n"})
    ELSE 0

\* r"[ \t\r\n]*!.*"
re_COMMENT(s, i) ==
    LET ws == RunLen(s, i, CommentWS)
    IN  IF i + ws <= Len(s) /\ s[i + ws] = "!"
        THEN ws + 1 + RunLenNot(s, i + ws + 1, {"\n"})
        ELSE 0

\* r"[ \t]*(\r?\n)+"
re_newline(s, i) ==
    LET ws == RunLen(s, i, HWS)
        nl == NewlineRun(s, i + ws)
    IN  IF nl > 0 THEN ws + nl ELSE 0

\* r"[ \t]*([^!,;\n]|[*])+[ \t]*": the greedy [ \t]* takes the leading blanks,
\* the group the run of characters up to the next of ! , ; \n (blanks
\* included), and when nothing is left for the group the regex backtracks and
\* gives it the last leading blank.
re_VALUE(s, i) ==
    LET ws == RunLen(s, i, HWS)
        body == RunLenNot(s, i + ws, ValueStop)
    IN  IF body > 0 THEN ws + body + RunLen(s, i + ws + body, HWS)
        ELSE IF ws > 0 THEN (ws - 1) + 1
        ELSE 0

\* r"[ \t]*,[ \t]*"
t_COMMA(s, i) ==
    LET ws == RunLen(s, i, HWS)
    IN  IF i + ws <= Len(s) /\ s[i + ws] = ","
        THEN ws + 1 + RunLen(s, i + ws + 1, HWS)
        ELSE 0

\* r"[ \t]*;[ \t]*"
t_SEMICOLON(s, i) ==
    LET ws == RunLen(s, i, HWS)
    IN  IF i + ws <= Len(s) /\ s[i + ws] = ";"
        THEN ws + 1 + RunLen(s, i + ws + 1, HWS)
        ELSE 0

\* The master regular expression: ply.lex tries the rules defined by
\* functions first, in the order of their definition (t_COMMENT, t_newline,
\* t_VALUE), and after them the rules defined by strings (t_COMMA,
\* t_SEMICOLON).
RuleOrder == <<"COMMENT", "newline", "VALUE", "COMMA", "SEMICOLON">>

MatchLen(rule, s, i) ==
    CASE rule = "COMMENT" -> re_COMMENT(s, i)
      [] rule = "newline" -> re_newline(s, i)
      [] rule = "VALUE" -> re_VALUE(s, i)
      [] rule = "COMMA" -> t_COMMA(s, i)
      [] rule = "SEMICOLON" -> t_SEMICOLON(s, i)

\* the index in order of the first rule that matches at i, 0 when none does
FirstMatchIn(order, s, i) ==
    LET hits == {k \in 1..Len(order) : MatchLen(order[k], s, i) > 0}
    IN  IF hits = {} THEN 0
        ELSE CHOOSE k \in hits : \A j \in hits : k <= j

FirstMatch(s, i) == FirstMatchIn(RuleOrder, s, i)

LexToken(type, value, line, pos) ==
    [type |-> type, value |-> value, lineno |-> line, lexpos |-> pos]

EndToken == [type |-> "$end", value |-> <<>>, lineno |-> 0, lexpos |-> 0]

\* t_COMMENT adds the newlines of the match to the line number of the token
\* it is handed, and returns nothing: the token is dropped with its line
\* number, and the lexer's own counter is left alone.
t_COMMENT(t, lexer_lineno) ==
    LET tok == [t EXCEPT !.lineno = @ + CountChar(t.value, "\n")]
    IN  lexer_lineno

\* t_newline adds the length of the whole match to the lexer's counter
t_newline(t, lexer_lineno) == lexer_lineno + Len(t.value)

\* t_VALUE returns the token unchanged
t_VALUE(t) == t

NoError == [kind |-> "none", value |-> <<>>, lineno |-> 0]

\* t_error: "Illegal character '<c>' at line <n> of input"
t_error(s, i, lexer_lineno) ==
    [kind |-> "illegal", value |-> <<s[i]>>, lineno |-> lexer_lineno]

-----------------------------------------------------------------------------
(* The grammar's semantic actions: each gives p[0] from p[1], p[2], ...     *)

\* result.setdefault(name.upper(), []).append(idfobject)
setdefault_append(d, key, idfobject) ==
    IF \E i \in 1..Len(d) : d[i].key = key
    THEN [i \in 1..Len(d) |->
            IF d[i].key = key
            THEN [d[i] EXCEPT !.objs = Append(@, idfobject)]
            ELSE d[i]]
    ELSE Append(d, [key |-> key, objs |-> <<idfobject>>])

RECURSIVE fold_objects(_, _)
\* the loop of p_idffile over the objects still to be filed
fold_objects(d, objs) ==
    IF objs = <<>> THEN d
    ELSE fold_objects(setdefault_append(d, upper(Head(objs)[1]), Head(objs)),
                      Tail(objs))

\* idffile : idfobjectlist
p_idffile(p1) == fold_objects(<<>>, p1)

\* idfobjectlist : idfobject
p_idfobjectlist(p1) == <<p1>>

\* p_idfobjectlist_multiple appending the object after the list that follows it
p_idfobjectlist_multiple_reversed(p1, p2) == p2 \o <<p1>>

\* idfobjectlist : idfobject idfobjectlist
p_idfobjectlist_multiple(p1, p2) == <<p1>> \o p2

\* idfobject : objectname SEMICOLON
p_idfobject(p1) == <<p1>>

\* idfobject : objectname COMMA valuelist SEMICOLON
p_idfobject_with_values(p1, p3) == <<p1>> \o p3

\* objectname : VALUE
p_objectname(p1) == strip(p1)

\* valuelist : VALUE
p_valuelist(p1) == <<strip(p1)>>

\* p_valuelist_multiple appending the value after the list that follows it
p_valuelist_multiple_reversed(p1, p3) == p3 \o <<strip(p1)>>

\* valuelist : VALUE COMMA valuelist
p_valuelist_multiple(p1, p3) == <<strip(p1)>> \o p3

\* p_error with its test inverted
p_error_inverted(p) ==
    IF p.type # "$end"
    THEN [kind |-> "eof", value |-> <<>>, lineno |-> 0]
    ELSE [kind |-> "token", value |-> p.value, lineno |-> p.lineno]

\* p_error(p): yacc hands it None at the end of the input, else the token
p_error(p) ==
    IF p.type = "$end"
    THEN [kind |-> "eof", value |-> <<>>, lineno |-> 0]
    ELSE [kind |-> "token", value |-> p.value, lineno |-> p.lineno]

-----------------------------------------------------------------------------
(* The LALR(1) automaton yacc.yacc() builds from the eight productions.    *)
(*   0  start                         7  objectname SEMICOLON .            *)
(*   1  idffile .                     8  objectname COMMA . valuelist ..   *)
(*   2  idfobjectlist .               9  objectname COMMA valuelist . ..   *)
(*   3  idfobject . [idfobjectlist]  10  VALUE . [COMMA valuelist]         *)
(*   4  objectname . ..              11  objectname COMMA valuelist SEMICOLON . *)
(*   5  VALUE .  (an object's name)  12  VALUE COMMA . valuelist           *)
(*   6  idfobject idfobjectlist .    13  VALUE COMMA valuelist .           *)

Shift(n) == <<"shift", n>>
Reduce(rule) == <<"reduce", rule>>
Accept == <<"accept", 0>>
NoAction == <<"error", 0>>

\* states whose only action is one reduction: yacc reduces there without
\* looking at the lookahead
DefaultedStates == {2, 6, 13}

LRAction(state, type) ==
    CASE state = 0 /\ type = "VALUE" -> Shift(5)
      [] state = 1 /\ type = "$end" -> Accept
      [] state = 2 -> Reduce("idffile")
      [] state = 3 /\ type = "VALUE" -> Shift(5)
      [] state = 3 /\ type = "$end" -> Reduce("idfobjectlist")
      [] state = 4 /\ type = "SEMICOLON" -> Shift(7)
      [] state = 4 /\ type = "COMMA" -> Shift(8)
      [] state = 5 /\ type \in {"SEMICOLON", "COMMA"} -> Reduce("objectname")
      [] state = 6 -> Reduce("idfobjectlist_multiple")
      [] state = 7 /\ type \in {"VALUE", "$end"} -> Reduce("idfobject")
      [] state = 8 /\ type = "VALUE" -> Shift(10)
      [] state = 9 /\ type = "SEMICOLON" -> Shift(11)
      [] state = 10 /\ type = "SEMICOLON" -> Reduce("valuelist")
      [] state = 10 /\ type = "COMMA" -> Shift(12)
      [] state = 11 /\ type \in {"VALUE", "$end"} -> Reduce("idfobject_with_values")
      [] state = 12 /\ type = "VALUE" -> Shift(10)
      [] state = 13 -> Reduce("valuelist_multiple")
      [] OTHER -> NoAction

LRGoto(state, nonterminal) ==
    CASE state = 0 /\ nonterminal = "idffile" -> 1
      [] state = 0 /\ nonterminal = "idfobjectlist" -> 2
      [] state = 3 /\ nonterminal = "idfobjectlist" -> 6
      [] state \in {0, 3} /\ nonterminal = "idfobject" -> 3
      [] state \in {0, 3} /\ nonterminal = "objectname" -> 4
      [] state = 8 /\ nonterminal = "valuelist" -> 9
      [] state = 12 /\ nonterminal = "valuelist" -> 13

-----------------------------------------------------------------------------
(* The state machine: parse() runs the parser, which pulls tokens from the *)
(* lexer one at a time.                                                    *)

Texts(alphabet, n) == UNION {[1..k -> alphabet] : k \in 0..n}

NoFirst == [text |-> <<>>, status |-> "none", result |-> <<>>]

\* lex.lex() and yacc.yacc() start afresh at every call of parse()
Start(text) ==
    /\ idf_text = text
    /\ lexpos = 1
    /\ lineno = 1
    /\ lookahead = <<>>
    /\ statestack = <<0>>
    /\ symstack = <<>>
    /\ status = "running"
    /\ result = <<>>
    /\ error = NoError
    /\ emitted = <<>>
    /\ parsed = <<>>

state == statestack[Len(statestack)]

\* what the parser does next: "lex" when it first needs a token
ParserStep ==
    IF state \in DefaultedStates THEN LRAction(state, "")
    ELSE IF lookahead = <<>> THEN <<"lex", 0>>
    ELSE LRAction(state, lookahead[1].type)

Harness == <<idf_text, pass, first, derived>>

\* one round of the loop of lexer.token(), called by the parser
token ==
    /\ status = "running"
    /\ ParserStep = <<"lex", 0>>
    /\ UNCHANGED <<statestack, symstack, result, parsed, Harness>>
    /\ IF lexpos > Len(idf_text)
       THEN /\ lookahead' = <<EndToken>>
            /\ UNCHANGED <<lexpos, lineno, status, error, emitted>>
       ELSE LET k == FirstMatch(idf_text, lexpos) IN
            IF k = 0
            THEN /\ status' = "raised"
                 /\ error' = t_error(idf_text, lexpos, lineno)
                 /\ UNCHANGED <<lexpos, lineno, lookahead, emitted>>
            ELSE LET rule == RuleOrder[k]
                     n == MatchLen(rule, idf_text, lexpos)
                     t == LexToken(rule,
                                   SubSeq(idf_text, lexpos, lexpos + n - 1),
                                   lineno, lexpos)
                 IN  /\ lexpos' = lexpos + n
                     /\ UNCHANGED <<status, error>>
                     /\ CASE rule = "COMMENT" ->
                               /\ lineno' = t_COMMENT(t, lineno)
                               /\ UNCHANGED <<lookahead, emitted>>
                          [] rule = "newline" ->
                               /\ lineno' = t_newline(t, lineno)
                               /\ UNCHANGED <<lookahead, emitted>>
                          [] rule = "VALUE" ->
                               /\ lookahead' = <<t_VALUE(t)>>
                               /\ emitted' = Append(emitted, t_VALUE(t))
                               /\ UNCHANGED lineno
                          [] OTHER ->
                               /\ lookahead' = <<t>>
                               /\ emitted' = Append(emitted, t)
                               /\ UNCHANGED lineno

shift ==
    /\ status = "running"
    /\ ParserStep[1] = "shift"
    /\ statestack' = Append(statestack, ParserStep[2])
    /\ symstack' = Append(symstack, [type |-> lookahead[1].type,
                                     value |-> lookahead[1].value])
    /\ lookahead' = <<>>
    /\ UNCHANGED <<lexpos, lineno, status, result, error, emitted, parsed,
                   Harness>>

\* the left-hand side of each production
rule_lhs(rule) ==
    CASE rule \in {"idfobjectlist", "idfobjectlist_multiple"} -> "idfobjectlist"
      [] rule \in {"idfobject", "idfobject_with_values"} -> "idfobject"
      [] rule \in {"valuelist", "valuelist_multiple"} -> "valuelist"
      [] OTHER -> rule

\* the value of the k-th symbol of the production being reduced, of length n
p(k, n) == symstack[Len(symstack) - n + k].value

\* pop the n symbols of the production, push its left-hand side with value p0
reduce(rule, n, p0) ==
    /\ status = "running"
    /\ ParserStep = Reduce(rule)
    /\ statestack' =
          Append(SubSeq(statestack, 1, Len(statestack) - n),
                 LRGoto(statestack[Len(statestack) - n], rule_lhs(rule)))
    /\ symstack' = Append(SubSeq(symstack, 1, Len(symstack) - n),
                          [type |-> rule_lhs(rule), value |-> p0])
    /\ UNCHANGED <<lexpos, lineno, lookahead, status, result, error, emitted,
                   Harness>>

reduce_idffile ==
    /\ reduce("idffile", 1, p_idffile(p(1, 1)))
    /\ UNCHANGED parsed

reduce_idfobjectlist ==
    /\ reduce("idfobjectlist", 1, p_idfobjectlist(p(1, 1)))
    /\ UNCHANGED parsed

reduce_idfobjectlist_multiple ==
    /\ reduce("idfobjectlist_multiple", 2,
              p_idfobjectlist_multiple(p(1, 2), p(2, 2)))
    /\ UNCHANGED parsed

reduce_idfobject ==
    /\ reduce("idfobject", 2, p_idfobject(p(1, 2)))
    /\ parsed' = Append(parsed, p_idfobject(p(1, 2)))

reduce_idfobject_with_values ==
    /\ reduce("idfobject_with_values", 4,
              p_idfobject_with_values(p(1, 4), p(3, 4)))
    /\ parsed' = Append(parsed, p_idfobject_with_values(p(1, 4), p(3, 4)))

reduce_objectname ==
    /\ reduce("objectname", 1, p_objectname(p(1, 1)))
    /\ UNCHANGED parsed

reduce_valuelist ==
    /\ reduce("valuelist", 1, p_valuelist(p(1, 1)))
    /\ UNCHANGED parsed

reduce_valuelist_multiple ==
    /\ reduce("valuelist_multiple", 3,
              p_valuelist_multiple(p(1, 3), p(3, 3)))
    /\ UNCHANGED parsed

\* parser.parse() returns the value of idffile; parse() returns it
accept ==
    /\ status = "running"
    /\ ParserStep = Accept
    /\ status' = "returned"
    /\ result' = <<symstack[Len(symstack)].value>>
    /\ UNCHANGED <<lexpos, lineno, lookahead, statestack, symstack, error,
                   emitted, parsed, Harness>>

\* no action for the lookahead: yacc calls p_error, which raises
syntax_error ==
    /\ status = "running"
    /\ ParserStep = NoAction
    /\ status' = "raised"
    /\ error' = p_error(lookahead[1])
    /\ UNCHANGED <<lexpos, lineno, lookahead, statestack, symstack, result,
                   emitted, parsed, Harness>>

parse ==
    \/ token
    \/ shift
    \/ reduce_idffile
    \/ reduce_idfobjectlist
    \/ reduce_idfobjectlist_multiple
    \/ reduce_idfobject
    \/ reduce_idfobject_with_values
    \/ reduce_objectname
    \/ reduce_valuelist
    \/ reduce_valuelist_multiple
    \/ accept
    \/ syntax_error

InitWith(texts) ==
    /\ \E text \in texts : Start(text)
    /\ pass = 1
    /\ first = NoFirst
    /\ derived = "none"

Next == parse

\* objects of up to two fields, and up to three objects, written without blanks
PlainAlphabet == {"a", ",", ";"}
PlainTexts == Texts(PlainAlphabet, MaxObjLen)

\* every kind of character, in short texts
Alphabet == {"a", ",", ";", " ", "\n", "\r", "!", "$"}

Init == InitWith(Texts(Alphabet, MaxLen) \cup PlainTexts)

Spec == Init /\ [][Next]_vars

\* texts of objects with several fields, blanks and the wildcard `*`
ObjectAlphabet == {"a", "*", ",", ";", " "}

InitObjects == InitWith(Texts(ObjectAlphabet, MaxObjLen))

SpecObjects == InitObjects /\ [][Next]_vars

\* texts of several objects whose type names differ, or differ only in case
DocumentAlphabet == {"a", "A", "b", ",", ";"}

InitDocument == InitWith(Texts(DocumentAlphabet, MaxObjLen))

SpecDocument == InitDocument /\ [][Next]_vars

-----------------------------------------------------------------------------
(* A second call of parse(), on a text derived from the first one's, to    *)
(* compare the two outcomes.                                               *)

Restart(kind, text) ==
    /\ pass = 1
    /\ status # "running"
    /\ pass' = 2
    /\ derived' = kind
    /\ first' = [text |-> idf_text, status |-> status, result |-> result]
    /\ idf_text' = text
    /\ lexpos' = 1
    /\ lineno' = 1
    /\ lookahead' = <<>>
    /\ statestack' = <<0>>
    /\ symstack' = <<>>
    /\ status' = "running"
    /\ result' = <<>>
    /\ error' = NoError
    /\ emitted' = <<>>
    /\ parsed' = <<>>

\* the places of a text where a blank is put before or after a type name, a
\* field, a comma or a semicolon: before the first and after the last
\* character of each trimmed value, before and after each `,` and `;`
PadPoints ==
    UNION {
        LET t == emitted[k]
            lead == RunLen(t.value, 1, PyWhitespace)
            inner == Len(strip(t.value))
        IN  IF t.type = "VALUE"
            THEN IF inner = 0 THEN {}
                 ELSE {t.lexpos + lead, t.lexpos + lead + inner}
            ELSE {t.lexpos + RunLen(t.value, 1, HWS),
                  t.lexpos + RunLen(t.value, 1, HWS) + 1}
        : k \in 1..Len(emitted)}

InsertAt(s, i, c) == SubSeq(s, 1, i - 1) \o <<c>> \o SubSeq(s, i, Len(s))

\* parse the accepted text again with one more blank at one of those places
parse_padded ==
    /\ status = "returned"
    /\ \E i \in PadPoints : Restart("padded", InsertAt(idf_text, i, " "))

PadAlphabet == {"a", ",", ";", " ", "\n"}

InitPad == InitWith(Texts(PadAlphabet, MaxPadLen) \cup PlainTexts)

NextPad == parse \/ parse_padded

SpecPad == InitPad /\ [][NextPad]_vars

\* position j of s lies in a comment: a `!` stands before it on its line
InComment(s, j) ==
    \E k \in 1..j : s[k] = "!" /\ \A m \in k..j : s[m] # "\n"

\* position j of s lies in the run of blanks, carriage returns and line
\* breaks that ends at a `!`
BeforeComment(s, j) ==
    /\ s[j] \in CommentWS
    /\ LET ws == RunLen(s, j, CommentWS)
       IN  j + ws <= Len(s) /\ s[j + ws] = "!"

RECURSIVE Keep(_, _, _)
\* the characters of s from position j on whose position is not in dropped
Keep(s, j, dropped) ==
    IF j > Len(s) THEN <<>>
    ELSE (IF j \in dropped THEN <<>> ELSE <<s[j]>>) \o Keep(s, j + 1, dropped)

\* the text without its comments, each deleted from its `!` to the end of
\* its line, the line break staying
WithoutComments(s) == Keep(s, 1, {j \in 1..Len(s) : InComment(s, j)})

\* the text without its comments and without the blanks, carriage returns
\* and line breaks that come right before the `!` of a comment
WithoutCommentMatches(s) ==
    Keep(s, 1, {j \in 1..Len(s) : InComment(s, j) \/ BeforeComment(s, j)})

HasComment(s) == \E j \in 1..Len(s) : s[j] = "!"

parse_without_comments ==
    /\ HasComment(idf_text)
    /\ Restart("uncommented", WithoutComments(idf_text))

parse_without_comment_matches ==
    /\ HasComment(idf_text)
    /\ Restart("unmatched", WithoutCommentMatches(idf_text))

StripAlphabet == {"a", ";", " ", "\n", "!"}

InitStrip == InitWith(Texts(StripAlphabet, MaxStripLen) \cup PlainTexts)

NextStrip == parse \/ parse_without_comments \/ parse_without_comment_matches

SpecStrip == InitStrip /\ [][NextStrip]_vars

RECURSIVE JoinWith(_, _)
\* sep.join(strs)
JoinWith(strs, sep) ==
    IF strs = <<>> THEN <<>>
    ELSE IF Len(strs) = 1 THEN Head(strs)
    ELSE Head(strs) \o sep \o JoinWith(Tail(strs), sep)

RECURSIVE ObjectsIn(_)
\* the objects of a Document, key after key
ObjectsIn(d) ==
    IF d = <<>> THEN <<>> ELSE Head(d).objs \o ObjectsIn(Tail(d))

\* each object written  name, v1, ..., vn;  the objects joined by line breaks
Serialize(d) ==
    LET objs == ObjectsIn(d)
        line(o) == JoinWith(o, <<",", " ">>) \o <<";">>
    IN  JoinWith([k \in 1..Len(objs) |-> line(objs[k])], <<"\n">>)

\* parse the returned Document's own serialization
parse_serialized ==
    /\ status = "returned"
    /\ Restart("serialized", Serialize(result[1]))

RoundAlphabet == {"a", "A", ",", ";", " "}

InitRound == InitWith(Texts(RoundAlphabet, MaxRoundLen) \cup PlainTexts)

NextRound == parse \/ parse_serialized

SpecRound == InitRound /\ [][NextRound]_vars

-----------------------------------------------------------------------------
(* What the claims speak of.                                               *)

Done == status # "running"
Returned == status = "returned"
Document == result[1]

Types(toks) == [i \in 1..Len(toks) |-> toks[i].type]

\* the grammar as an automaton over token types: "start" before an object,
\* "name" after its name, "comma" after a comma, "field" after a field
GrammarStep(q, type) ==
    CASE q = "start" /\ type = "VALUE" -> "name"
      [] q \in {"name", "field"} /\ type = "COMMA" -> "comma"
      [] q \in {"name", "field"} /\ type = "SEMICOLON" -> "start"
      [] q = "comma" /\ type = "VALUE" -> "field"
      [] OTHER -> "dead"

RECURSIVE GrammarState(_, _)
GrammarState(q, types) ==
    IF types = <<>> THEN q
    ELSE GrammarState(GrammarStep(q, Head(types)), Tail(types))

\* the tokens are one or more complete objects
IsDocument(toks) == toks # <<>> /\ GrammarState("start", Types(toks)) = "start"

\* the lexer has handed the parser the end of the input
Exhausted == lookahead = <<EndToken>>

\* the number of line breaks before position i of the text
LineBreaksBefore(i) == CountChar(SubSeq(idf_text, 1, i - 1), "\n")

\* a text made of objects written a,a; with nothing else in it
PlainStep(q, c) ==
    CASE q \in {"start", "value", "comma"} /\ c = "a" -> "value"
      [] q = "value" /\ c = "," -> "comma"
      [] q = "value" /\ c = ";" -> "start"
      [] OTHER -> "dead"

RECURSIVE PlainState(_, _)
PlainState(q, s) ==
    IF s = <<>> THEN q ELSE PlainState(PlainStep(q, Head(s)), Tail(s))

IsPlainDocumentText(s) == s # <<>> /\ PlainState("start", s) = "start"

\* complete objects, then perhaps blanks, then a `$`
ObjectsThenDollar(s) ==
    LET n == Len(s)
        blanks == IF n >= 2 /\ s[n - 1] = " " THEN 1 ELSE 0
    IN  /\ n >= 1
        /\ s[n] = "$"
        /\ IsPlainDocumentText(SubSeq(s, 1, n - 1 - blanks))

\* C5: a complete object followed by `$` fails with the lexer's "Illegal
\* character" error, which names `$` and the current line; it does not fail
\* with a syntax error of the grammar or at the end of the input, and no
\* Document is returned.
C5_IllegalCharacter ==
    (Done /\ pass = 1 /\ ObjectsThenDollar(idf_text)) =>
        /\ status = "raised"
        /\ error.kind = "illegal"
        /\ error.value = <<"$">>
        /\ error.lineno = lineno
        /\ result = <<>>

\* C6: when the tokens run out before they make a document of at least one
\* complete object, parse raises "Syntax error at EOF" (at once: the parser
\* has no action for the end of the input) and returns no Document.
C6_EndOfInput ==
    (Exhausted /\ ~IsDocument(emitted)) =>
        \/ status = "running" /\ ParserStep = NoAction
        \/ status = "raised" /\ error.kind = "eof" /\ result = <<>>

\* parse has raised the end-of-input error after completing an object
C6_Witness ==
    /\ status = "raised"
    /\ error.kind = "eof"
    /\ Exhausted
    /\ Len(parsed) >= 1

\* C8: the lexer's line counter is 1 plus the number of line breaks it has
\* consumed, and every token carries the number of the line it starts on.
C8_LineNumber ==
    /\ lineno = 1 + LineBreaksBefore(lexpos)
    /\ \A i \in 1..Len(emitted) :
          emitted[i].lineno = 1 + LineBreaksBefore(emitted[i].lexpos)

\* the order of the rules as the specification gives it
ClaimedOrder == <<"COMMENT", "newline", "COMMA", "SEMICOLON", "VALUE">>

IsBlank(s) == \A i \in 1..Len(s) : s[i] \in HWS

\* C9: at every position the rules are tried in the order Comment, Newline
\* run, Comma, Semicolon, Value: each token is the match of the first of
\* them that matches where the token starts, and blanks followed by `,` or
\* `;` never make a VALUE token.
C9_RulePriority ==
    \A i \in 1..Len(emitted) :
        LET t == emitted[i]
            k == FirstMatchIn(ClaimedOrder, idf_text, t.lexpos)
        IN  /\ t.type = ClaimedOrder[k]
            /\ Len(t.value) = MatchLen(ClaimedOrder[k], idf_text, t.lexpos)
            /\ ~(/\ t.type = "VALUE"
                 /\ IsBlank(t.value)
                 /\ t.lexpos + Len(t.value) <= Len(idf_text)
                 /\ idf_text[t.lexpos + Len(t.value)] \in {",", ";"})

\* C10: every key, type name and field of a returned Document is a non-empty
\* string (no VALUE token being made of whitespace only).
C10_NonEmpty ==
    Returned =>
          \A i \in 1..Len(Document) :
              /\ Document[i].key # <<>>
              /\ \A j \in 1..Len(Document[i].objs) :
                    \A k \in 1..Len(Document[i].objs[j]) :
                        Document[i].objs[j][k] # <<>>

-----------------------------------------------------------------------------

\* the position of the first object of parsed filed under key
FirstIndex(objs, key) ==
    CHOOSE k \in 1..Len(objs) :
        /\ upper(objs[k][1]) = key
        /\ \A j \in 1..(k - 1) : upper(objs[j][1]) # key

\* C1: the returned Document holds every parsed object exactly once, under
\* the key uppercase(object[0]) and no other; the objects of a key are in
\* source order and keep their name as written; the keys are in the order of
\* their first appearance.
C1_Aggregation ==
    Returned =>
        LET d == Document IN
        /\ \A i, j \in 1..Len(d) : d[i].key = d[j].key => i = j
        /\ \A i \in 1..Len(d) :
              /\ d[i].objs # <<>>
              /\ d[i].objs =
                    SelectSeq(parsed, LAMBDA o : upper(o[1]) = d[i].key)
        /\ \A k \in 1..Len(parsed) :
              \E i \in 1..Len(d) : d[i].key = upper(parsed[k][1])
        /\ \A i, j \in 1..Len(d) :
              i < j => FirstIndex(parsed, d[i].key) < FirstIndex(parsed, d[j].key)

\* a Document of two keys, one of them holding two objects whose names
\* differ in case only
C1_Witness ==
    /\ Returned
    /\ Len(Document) >= 2
    /\ \E i \in 1..Len(Document) :
          /\ Len(Document[i].objs) >= 2
          /\ Document[i].objs[1] # Document[i].objs[2]

RECURSIVE ObjectsOf(_, _)
\* the objects the tokens spell: the trimmed VALUE tokens up to each
\* SEMICOLON, in order (cur: those of the object being read)
ObjectsOf(toks, cur) ==
    IF toks = <<>> THEN <<>>
    ELSE IF Head(toks).type = "SEMICOLON"
         THEN <<cur>> \o ObjectsOf(Tail(toks), <<>>)
    ELSE IF Head(toks).type = "VALUE"
         THEN ObjectsOf(Tail(toks), Append(cur, strip(Head(toks).value)))
    ELSE ObjectsOf(Tail(toks), cur)

\* C2: each object built is its name followed by its fields in source order,
\* each the trimmed text of its VALUE token: 1 element for no field, n + 1
\* for n fields, none reversed, dropped or duplicated.
C2_ObjectFields ==
    LET spelled == ObjectsOf(emitted, <<>>) IN
    /\ Len(parsed) <= Len(spelled)
    /\ parsed = SubSeq(spelled, 1, Len(parsed))
    /\ Returned => Len(parsed) = Len(spelled)

\* an object of two different fields, one the wildcard, has been returned
C2_Witness ==
    /\ Returned
    /\ \E k \in 1..Len(parsed) :
          /\ Len(parsed[k]) >= 3
          /\ parsed[k][2] # parsed[k][3]
          /\ \E j \in 2..Len(parsed[k]) : parsed[k][j] = <<"*">>

-----------------------------------------------------------------------------

\* the type names and fields of a Document
Values(d) ==
    UNION {UNION {{d[i].objs[j][k] : k \in 1..Len(d[i].objs[j])}
                  : j \in 1..Len(d[i].objs)}
           : i \in 1..Len(d)}

Trimmed(v) ==
    v = <<>> \/ (v[1] \notin PyWhitespace /\ v[Len(v)] \notin PyWhitespace)

\* C3: blanks put before or after a type name, a field, a comma or a
\* semicolon of an accepted text leave the result of parse unchanged, and no
\* type name or field of it has leading or trailing whitespace.
C3_WhitespaceInsensitive ==
    (pass = 2 /\ derived = "padded" /\ Done) =>
        /\ Returned
        /\ result = first.result
        /\ \A v \in Values(Document) : Trimmed(v)

C7_RoundTrip ==
    (pass = 2 /\ derived = "serialized" /\ Done) =>
        /\ Returned
        /\ result = first.result

====
